---- MODULE Spec2Model ----
(***************************************************************************)
(* A model of gdg_json.GDGJson (src/src/gdg_json/__init__.py): an adapter  *)
(* that owns a reference `df` to one polars DataFrame and offers chainable *)
(* transforms.  DataFrames live in a heap so that two adapters, or an      *)
(* adapter and its caller, can hold the same DataFrame object.             *)
(***************************************************************************)
EXTENDS Integers, Sequences, FiniteSets, TLC

VARIABLES heap, df, last, nops

vars == <<heap, df, last, nops>>

(* ------------------------------ bounds --------------------------------- *)

\* number of method calls in one run
MaxOps == 2
\* rows of a constructor input
MaxRows == 3
\* elements of one array of a constructor input
MaxLen == 2

(* ------------------------------ values --------------------------------- *)

IntV(n) == [t |-> "int", v |-> n]
NullV == [t |-> "null"]
\* a record (JSON object, Python dict, polars struct): ordered members
StructV(m) == [t |-> "struct", m |-> m]
ListV(e) == [t |-> "list", e |-> e]
Member(k, v) == [k |-> k, v |-> v]

Range(s) == {s[i] : i \in DOMAIN s}
Keys(m) == [i \in DOMAIN m |-> m[i].k]
Lookup(m, k) == m[CHOOSE i \in DOMAIN m : m[i].k = k].v
NoDuplicates(s) == \A i, j \in DOMAIN s : s[i] = s[j] => i = j

RECURSIVE Concat(_)
Concat(ss) == IF ss = <<>> THEN <<>> ELSE Head(ss) \o Concat(Tail(ss))

RECURSIVE SumSeq(_)
SumSeq(s) == IF s = <<>> THEN 0 ELSE Head(s) + SumSeq(Tail(s))

(* ------------------------------ dtypes --------------------------------- *)

Int64 == [kind |-> "Int64"]
Null == [kind |-> "Null"]
Struct(fields) == [kind |-> "Struct", fields |-> fields]
List(inner) == [kind |-> "List", inner |-> inner]

\* dtype polars infers for a column from its values (struct fields are Int64)
RECURSIVE InferDtype(_)
InferDtype(vals) ==
    IF \E i \in DOMAIN vals : vals[i].t = "int" THEN Int64
    ELSE IF \E i \in DOMAIN vals : vals[i].t = "struct"
        THEN Struct(Keys(vals[CHOOSE i \in DOMAIN vals :
                              /\ vals[i].t = "struct"
                              /\ \A j \in 1..(i - 1) : vals[j].t # "struct"].m))
    ELSE IF \E i \in DOMAIN vals : vals[i].t = "list"
        THEN List(InferDtype(Concat([i \in DOMAIN vals |->
                 IF vals[i].t = "list" THEN vals[i].e ELSE <<>>])))
    ELSE Null

(* --------------------- the columnar table engine ----------------------- *)

\* a table is an ordered sequence of named, typed columns of equal length
Column(name, dtype, values) == [name |-> name, dtype |-> dtype, values |-> values]
Columns(t) == [i \in DOMAIN t |-> t[i].name]
Height(t) == IF t = <<>> THEN 0 ELSE Len(t[1].values)
HasColumn(t, c) == \E i \in DOMAIN t : t[i].name = c
Col(t, c) == t[CHOOSE i \in DOMAIN t : t[i].name = c]
Schema(t, c) == Col(t, c).dtype

\* results of engine calls and of methods: a value or a raised exception
Ok(v) == [ok |-> TRUE, v |-> v]
Raise(e) == [ok |-> FALSE, err |-> e]

\* pl.read_json: one record or an array of uniform records, columns from keys
ReadJson(doc) ==
    LET recs == doc.records
        keys == Keys(recs[1])
    IN  [i \in DOMAIN keys |->
            LET vals == [r \in DOMAIN recs |-> Lookup(recs[r], keys[i])]
            IN  Column(keys[i], InferDtype(vals), vals)]

\* pl.DataFrame(mapping): column name -> Python list or Series
PlDataFrame(d) ==
    [i \in DOMAIN d |->
        IF d[i].v.t = "series"
        THEN Column(d[i].k, d[i].v.dtype, d[i].v.values)
        ELSE Column(d[i].k, InferDtype(d[i].v.e), d[i].v.e)]

\* DataFrame.to_dicts: one dict per row, keyed by column name
ToDicts(t) ==
    [r \in 1..Height(t) |-> [i \in DOMAIN t |-> Member(t[i].name, t[i].values[r])]]

\* DataFrame.to_dict: column name -> Series
ToDict(t) ==
    [i \in DOMAIN t |->
        Member(t[i].name, [t |-> "series", dtype |-> t[i].dtype, values |-> t[i].values])]

\* DataFrame.select(names)
DfSelect(t, names) ==
    IF \E i \in DOMAIN names : ~HasColumn(t, names[i]) THEN Raise("ColumnNotFoundError")
    ELSE IF ~NoDuplicates(names) THEN Raise("DuplicateError")
    ELSE Ok([i \in DOMAIN names |-> Col(t, names[i])])

\* a Python dict built from key/value pairs: the last value of a key wins
DictGet(pairs, k) ==
    pairs[CHOOSE i \in DOMAIN pairs :
            /\ pairs[i][1] = k
            /\ \A j \in (i + 1)..Len(pairs) : pairs[j][1] # k][2]
DictHas(pairs, k) == \E i \in DOMAIN pairs : pairs[i][1] = k

\* DataFrame.rename(mapping)
DfRename(t, pairs) ==
    LET names == [i \in DOMAIN t |->
                    IF DictHas(pairs, t[i].name) THEN DictGet(pairs, t[i].name)
                    ELSE t[i].name]
    IN  IF \E i \in DOMAIN pairs : ~HasColumn(t, pairs[i][1])
        THEN Raise("ColumnNotFoundError")
        ELSE IF ~NoDuplicates(names) THEN Raise("DuplicateError")
        ELSE Ok([i \in DOMAIN t |-> Column(names[i], t[i].dtype, t[i].values)])

\* the subsequence of s whose elements satisfy Keep
RECURSIVE Filter(_, _)
Filter(s, keep) ==
    IF s = <<>> THEN <<>>
    ELSE IF keep[1] THEN <<Head(s)>> \o Filter(Tail(s), Tail(keep))
    ELSE Filter(Tail(s), Tail(keep))

\* DataFrame.drop(names)
DfDrop(t, names) ==
    IF \E i \in DOMAIN names : ~HasColumn(t, names[i]) THEN Raise("ColumnNotFoundError")
    ELSE Ok(Filter(t, [i \in DOMAIN t |-> t[i].name \notin Range(names)]))

\* DataFrame.with_columns(pl.col(c).alias(n)): replaces n in place or appends it
DfWithAlias(t, c, n) ==
    IF ~HasColumn(t, c) THEN Raise("ColumnNotFoundError")
    ELSE LET new == Column(n, Col(t, c).dtype, Col(t, c).values)
         IN  IF HasColumn(t, n)
             THEN Ok([i \in DOMAIN t |-> IF t[i].name = n THEN new ELSE t[i]])
             ELSE Ok(Append(t, new))

\* rows one value of an exploded column turns into: an empty or null list
\* gives one null row
ExplodeCount(v) == IF v.t = "list" /\ v.e # <<>> THEN Len(v.e) ELSE 1
ExplodeValue(v) == IF v.t = "list" /\ v.e # <<>> THEN v.e ELSE <<NullV>>

\* an explode that drops the rows whose list is empty
DfExplodeDropEmpty(t, c) ==
    IF ~HasColumn(t, c) THEN Raise("ColumnNotFoundError")
    ELSE IF Schema(t, c).kind # "List" THEN Raise("InvalidOperationError")
    ELSE LET src == Col(t, c).values
             origin == Concat([r \in DOMAIN src |-> [k \in 1..Len(src[r].e) |-> r]])
         IN  Ok([i \in DOMAIN t |->
                    IF t[i].name = c
                    THEN Column(c, Schema(t, c).inner,
                                Concat([r \in DOMAIN src |-> src[r].e]))
                    ELSE Column(t[i].name, t[i].dtype,
                                [k \in DOMAIN origin |-> t[i].values[origin[k]]])])

\* DataFrame.explode(c)
DfExplode(t, c) ==
    IF ~HasColumn(t, c) THEN Raise("ColumnNotFoundError")
    ELSE IF Schema(t, c).kind # "List" THEN Raise("InvalidOperationError")
    ELSE LET src == Col(t, c).values
             \* for every result row, the row of t it comes from
             origin == Concat([r \in DOMAIN src |-> [k \in 1..ExplodeCount(src[r]) |-> r]])
         IN  Ok([i \in DOMAIN t |->
                    IF t[i].name = c
                    THEN Column(c, Schema(t, c).inner,
                                Concat([r \in DOMAIN src |-> ExplodeValue(src[r])]))
                    ELSE Column(t[i].name, t[i].dtype,
                                [k \in DOMAIN origin |-> t[i].values[origin[k]]])])

\* pl.col(c).struct.field(f): the field of every struct, null for a null struct
StructField(col, f) ==
    Column(f, Int64, [r \in DOMAIN col.values |->
        IF col.values[r].t = "struct" THEN Lookup(col.values[r].m, f) ELSE NullV])

(* ------------------------- Python values ------------------------------- *)

NoneV == [t |-> "None"]
Str(s) == [t |-> "str", s |-> s]
\* what a call gives back: an adapter, a plain value, or nothing (it raised)
AdapterRef(a) == [t |-> "adapter", id |-> a]
Value(v) == [t |-> "value", v |-> v]
Nothing == [t |-> "nothing"]

\* the outcome of a method call: the heap and the adapters' df references
\* after it, "ok" or the exception raised, and the value returned
Outcome(h, d, status, ret) == [heap |-> h, df |-> d, status |-> status, ret |-> ret]

\* self.df = <new table>: the new table is a new object, the old one is kept
Assign(h, d, self, t) == [heap |-> Append(h, t), df |-> [d EXCEPT ![self] = Len(h) + 1]]

(* ----------------------------- GDGJson --------------------------------- *)

\* __init__: the table of the new adapter, by the type of json_obj
GDGJsonInit(h, json_obj) ==
    IF json_obj.type = "str"
    THEN Ok([heap |-> Append(h, ReadJson(json_obj.doc)), ref |-> Len(h) + 1])
    ELSE IF json_obj.type = "dict"
    THEN Ok([heap |-> Append(h, PlDataFrame(json_obj.d)), ref |-> Len(h) + 1])
    ELSE IF json_obj.type = "DataFrame"
    THEN Ok([heap |-> h, ref |-> json_obj.ref])
    ELSE Raise("ValueError")

\* GDGJson(json_obj) called where adapters d exist
Construct(h, d, json_obj) ==
    LET r == GDGJsonInit(h, json_obj)
    IN  IF r.ok
        THEN Outcome(r.v.heap, Append(d, r.v.ref), "ok", AdapterRef(Len(d) + 1))
        ELSE Outcome(h, d, r.err, Nothing)

\* to_json: the rows as a list of dicts
ToJson(h, d, self) == [type |-> "list", rows |-> ToDicts(h[d[self]])]

\* an alias prefix without the case of the empty prefix
AliasEmptyPrefixKeepsSeparator(column_name, prefix) ==
    IF prefix.t = "None" THEN column_name \o "_"
    ELSE prefix.s \o "_"

\* the alias prefix of __unnest_with_prefix
Alias(column_name, prefix) ==
    IF prefix.t = "None" THEN column_name \o "_"
    ELSE IF prefix.s = "" THEN ""
    ELSE prefix.s \o "_"

\* __unnest_with_prefix: the struct's fields, aliased, then the other columns
UnnestWithPrefix(t, column_name, prefix) ==
    IF ~HasColumn(t, column_name) THEN Raise("KeyError")
    ELSE IF Schema(t, column_name).kind # "Struct" THEN Raise("AttributeError")
    ELSE LET fields == Schema(t, column_name).fields
             new == [i \in DOMAIN fields |->
                        LET f == StructField(Col(t, column_name), fields[i])
                        IN  Column(Alias(column_name, prefix) \o fields[i], f.dtype, f.values)]
             rest == Filter(t, [i \in DOMAIN t |-> t[i].name # column_name])
         IN  IF ~NoDuplicates(Columns(new \o rest)) THEN Raise("DuplicateError")
             ELSE Ok(new \o rest)

\* a method that is one engine call: self.df = <call>; return self
Transform(h, d, self, r) ==
    IF r.ok
    THEN LET s == Assign(h, d, self, r.v) IN Outcome(s.heap, s.df, "ok", AdapterRef(self))
    ELSE Outcome(h, d, r.err, Nothing)

UnnestColumnAsRoot(h, d, self, column_name) ==
    LET r1 == DfSelect(h[d[self]], <<column_name>>)
    IN  IF ~r1.ok THEN Outcome(h, d, r1.err, Nothing)
        ELSE LET s1 == Assign(h, d, self, r1.v)
             IN  Transform(s1.heap, s1.df, self, UnnestWithPrefix(r1.v, column_name, Str("")))

UnnestColumnAsRows(h, d, self, column_name, prefix) ==
    LET r1 == DfExplode(h[d[self]], column_name)
    IN  IF ~r1.ok THEN Outcome(h, d, r1.err, Nothing)
        ELSE LET s1 == Assign(h, d, self, r1.v)
             IN  Transform(s1.heap, s1.df, self, UnnestWithPrefix(r1.v, column_name, prefix))

RenameColumn(h, d, self, from_name, to_name) ==
    Transform(h, d, self, DfRename(h[d[self]], <<<<from_name, to_name>>>>))

\* Python's zip: pairs up to the shorter of the two sequences
Zip(xs, ys) ==
    [i \in 1..(IF Len(xs) < Len(ys) THEN Len(xs) ELSE Len(ys)) |-> <<xs[i], ys[i]>>]

RenameColumns(h, d, self, from_names, to_names) ==
    Transform(h, d, self, DfRename(h[d[self]], Zip(from_names, to_names)))

Drop(h, d, self, column_names) ==
    Transform(h, d, self, DfDrop(h[d[self]], column_names))

DuplicateColumn(h, d, self, column_name, new_column_name) ==
    Transform(h, d, self, DfWithAlias(h[d[self]], column_name, new_column_name))

ExpandColumn(h, d, self, column_name, prefix) ==
    Transform(h, d, self, UnnestWithPrefix(h[d[self]], column_name, prefix))

\* a __setitem__ that sets the column on the table object
DfSetItemInPlace(t, key, value) ==
    LET new == Column(key, InferDtype(<<value>>), [r \in 1..Height(t) |-> value])
    IN  IF HasColumn(t, key)
        THEN Ok([i \in DOMAIN t |-> IF t[i].name = key THEN new ELSE t[i]])
        ELSE Ok(Append(t, new))

\* DataFrame.__setitem__(key, value) on the table object itself: a str key
\* is refused
DfSetItem(t, key, value) == Raise("TypeError")

\* set_constant: self.df[column_name] = value, in place
SetConstant(h, d, self, column_name, value) ==
    LET r == DfSetItem(h[d[self]], column_name, value)
    IN  IF r.ok THEN Outcome([h EXCEPT ![d[self]] = r.v], d, "ok", AdapterRef(self))
        ELSE Outcome(h, d, r.err, Nothing)

\* copy: GDGJson(self.to_json())
Copy(h, d, self) == Construct(h, d, ToJson(h, d, self))

\* select(*args, copy)
Select(h, d, self, args, copy) ==
    IF copy
    THEN LET c == Copy(h, d, self)
         IN  IF c.status # "ok" THEN c
             ELSE Transform(c.heap, c.df, c.ret.id, DfSelect(c.heap[c.df[c.ret.id]], args))
    ELSE Transform(h, d, self, DfSelect(h[d[self]], args))

\* repr(adapter): __repr__ must return a str
Repr(h, d, self) ==
    LET r == ToJson(h, d, self)
    IN  IF r.type = "str" THEN Outcome(h, d, "ok", Value(r))
        ELSE Outcome(h, d, "TypeError", Nothing)

\* __copy__: GDGJson(self.df.to_dict())
ShallowCopy(h, d, self) == Construct(h, d, [type |-> "dict", d |-> ToDict(h[d[self]])])

\* __deepcopy__ with an empty memo: a new adapter on a deep copy of the table
DeepCopy(h, d, self) ==
    LET h1 == Append(h, h[d[self]])
    IN  Construct(h1, d, [type |-> "DataFrame", ref |-> Len(h1)])

(* ------------------------ constructor inputs --------------------------- *)

\* a struct with fields a, b; i is the row and j the position in its array
StructVal(i, j) ==
    StructV(<<Member("a", IntV(10 * i + j)), Member("b", IntV(100 + 10 * i + j))>>)
\* a record with a scalar under key k and a struct
StructRecord(k, i) == <<Member(k, IntV(i)), Member("c", StructVal(i, 0))>>
\* a record with a scalar under key k and an array of n structs
ListRecord(k, i, n) ==
    <<Member(k, IntV(i)), Member("items", ListV([j \in 1..n |-> StructVal(i, j)]))>>
\* JSON text, as the document it denotes: an array of records or one record
ArrayDoc(recs) == [type |-> "str", doc |-> [top |-> "array", records |-> recs]]
ObjectDoc(rec) == [type |-> "str", doc |-> [top |-> "object", records |-> <<rec>>]]
ListDoc(k, lens) == ArrayDoc([i \in DOMAIN lens |-> ListRecord(k, i, lens[i])])
StructDoc(k, n) == ArrayDoc([i \in 1..n |-> StructRecord(k, i)])
\* a mapping from column name to a list of values
DictInput(k, n) ==
    [type |-> "dict",
     d |-> <<Member(k, ListV([i \in 1..n |-> IntV(i)])),
             Member("c", ListV([i \in 1..n |-> StructVal(i, 0)]))>>]

\* the scalar column is named apart from the struct fields, or like one
ScalarKeys == {"id", "a"}

\* every well-formed input within the bounds
Inputs ==
    UNION {{StructDoc(k, n) : n \in 1..MaxRows}
            \cup {ObjectDoc(StructRecord(k, 1)), ObjectDoc(ListRecord(k, 1, 1))}
            \cup UNION {{ListDoc(k, lens) : lens \in [1..n -> 0..MaxLen]} : n \in 1..MaxRows}
            \cup {DictInput(k, n) : n \in 1..MaxRows} : k \in ScalarKeys}

\* a few of them, for runs of several calls
SampleInputs ==
    {StructDoc("id", 2), StructDoc("a", 1), ListDoc("id", <<2, 0, 1>>), DictInput("id", 1)}

\* arguments the caller passes
ColumnArgs == {"id", "c", "items"}
NewNameArgs == {"n", "c"}
PrefixArgs == {NoneV, Str(""), Str("x")}
FromListArgs == {<<"id">>, <<"id", "c">>, <<"id", "items">>, <<"c", "id">>}
ToListArgs == {<<"x">>, <<"x", "y">>}
DropArgs == {<<"id">>, <<"c", "id">>, <<"items">>}
SelectArgs == {<<"id">>, <<"c", "id">>, <<"items", "id">>}
ConstantArgs == {IntV(7)}

(* ------------------------------ actions -------------------------------- *)

\* the record of the call just made
Called(op, self, args, o) ==
    [op |-> op, self |-> self, args |-> args,
     old |-> IF self = 0 THEN 0 ELSE df[self],
     before |-> IF self = 0 THEN <<>> ELSE heap[df[self]],
     status |-> o.status, ret |-> o.ret]

\* one call of a method: its outcome becomes the state
Apply(op, self, args, o) ==
    /\ nops < MaxOps
    /\ heap' = o.heap
    /\ df' = o.df
    /\ last' = Called(op, self, args, o)
    /\ nops' = nops + 1

\* what a caller can hand to the constructor later on: a new input, the table
\* or the to_json() output of an adapter, or something that is none of these
LaterInputs ==
    {StructDoc("id", 1)}
        \cup {[type |-> "DataFrame", ref |-> df[a]] : a \in DOMAIN df}
        \cup {ToJson(heap, df, a) : a \in DOMAIN df}
        \cup {[type |-> "int"]}

Create ==
    \E json_obj \in LaterInputs :
        Apply("create", 0, [json_obj |-> json_obj], Construct(heap, df, json_obj))

ToJsonCall ==
    \E self \in DOMAIN df :
        Apply("to_json", self, [none |-> TRUE],
              Outcome(heap, df, "ok", Value(ToJson(heap, df, self))))

UnnestColumnAsRootCall ==
    \E self \in DOMAIN df, c \in ColumnArgs :
        Apply("unnest_column_as_root", self, [column_name |-> c],
              UnnestColumnAsRoot(heap, df, self, c))

UnnestColumnAsRowsCall ==
    \E self \in DOMAIN df, c \in ColumnArgs, p \in PrefixArgs :
        Apply("unnest_column_as_rows", self, [column_name |-> c, prefix |-> p],
              UnnestColumnAsRows(heap, df, self, c, p))

RenameColumnCall ==
    \E self \in DOMAIN df, f \in ColumnArgs, n \in NewNameArgs :
        Apply("rename_column", self, [from_name |-> f, to_name |-> n],
              RenameColumn(heap, df, self, f, n))

RenameColumnsCall ==
    \E self \in DOMAIN df, fs \in FromListArgs, ts \in ToListArgs :
        Apply("rename_columns", self, [from_names |-> fs, to_names |-> ts],
              RenameColumns(heap, df, self, fs, ts))

DropCall ==
    \E self \in DOMAIN df, cs \in DropArgs :
        Apply("drop", self, [column_names |-> cs], Drop(heap, df, self, cs))

DuplicateColumnCall ==
    \E self \in DOMAIN df, c \in ColumnArgs, n \in NewNameArgs :
        Apply("duplicate_column", self, [column_name |-> c, new_column_name |-> n],
              DuplicateColumn(heap, df, self, c, n))

ExpandColumnCall ==
    \E self \in DOMAIN df, c \in ColumnArgs, p \in PrefixArgs :
        Apply("expand_column", self, [column_name |-> c, prefix |-> p],
              ExpandColumn(heap, df, self, c, p))

SetConstantCall ==
    \E self \in DOMAIN df, c \in NewNameArgs \cup {"id"}, v \in ConstantArgs :
        Apply("set_constant", self, [column_name |-> c, value |-> v],
              SetConstant(heap, df, self, c, v))

CopyCall ==
    \E self \in DOMAIN df :
        Apply("copy", self, [none |-> TRUE], Copy(heap, df, self))

SelectCall ==
    \E self \in DOMAIN df, cs \in SelectArgs, copy \in BOOLEAN :
        Apply("select", self, [args |-> cs, copy |-> copy],
              Select(heap, df, self, cs, copy))

ReprCall ==
    \E self \in DOMAIN df :
        Apply("repr", self, [none |-> TRUE], Repr(heap, df, self))

ShallowCopyCall ==
    \E self \in DOMAIN df :
        Apply("__copy__", self, [none |-> TRUE], ShallowCopy(heap, df, self))

DeepCopyCall ==
    \E self \in DOMAIN df :
        Apply("__deepcopy__", self, [none |-> TRUE], DeepCopy(heap, df, self))

\* the state after GDGJson(json_obj)
Constructed(json_obj) ==
    LET o == Construct(<<>>, <<>>, json_obj)
    IN  /\ heap = o.heap
        /\ df = o.df
        /\ last = [op |-> "create", self |-> 0, args |-> [json_obj |-> json_obj],
                   old |-> 0, before |-> <<>>, status |-> o.status, ret |-> o.ret]
        /\ nops = 0

Init == \E json_obj \in SampleInputs : Constructed(json_obj)

Next ==
    \/ Create
    \/ ToJsonCall
    \/ UnnestColumnAsRootCall
    \/ UnnestColumnAsRowsCall
    \/ RenameColumnCall
    \/ RenameColumnsCall
    \/ DropCall
    \/ DuplicateColumnCall
    \/ ExpandColumnCall
    \/ SetConstantCall
    \/ CopyCall
    \/ SelectCall
    \/ ReprCall
    \/ ShallowCopyCall
    \/ DeepCopyCall

\* runs of up to MaxOps calls on adapters built from the sample inputs
Spec == Init /\ [][Next]_vars

\* one call on an adapter built from any input within the bounds
CallInit == \E json_obj \in Inputs : Constructed(json_obj)
CallNext ==
    \/ nops = 0 /\ Create
    \/ nops = 0 /\ ToJsonCall
    \/ nops = 0 /\ UnnestColumnAsRootCall
    \/ nops = 0 /\ UnnestColumnAsRowsCall
    \/ nops = 0 /\ RenameColumnCall
    \/ nops = 0 /\ RenameColumnsCall
    \/ nops = 0 /\ DropCall
    \/ nops = 0 /\ DuplicateColumnCall
    \/ nops = 0 /\ ExpandColumnCall
    \/ nops = 0 /\ SetConstantCall
    \/ nops = 0 /\ CopyCall
    \/ nops = 0 /\ SelectCall
    \/ nops = 0 /\ ReprCall
    \/ nops = 0 /\ ShallowCopyCall
    \/ nops = 0 /\ DeepCopyCall
CallSpec == CallInit /\ [][CallNext]_vars

(* ------------------------------ claims --------------------------------- *)

\* the table the adapter of the last call holds now
After == heap[df[last.self]]
IsOk == last.status = "ok"

TransformOps ==
    {"unnest_column_as_root", "unnest_column_as_rows", "expand_column", "rename_column",
     "rename_columns", "drop", "duplicate_column", "select"}

\* C1: a transform that raises leaves the adapter's table exactly as it was
\* before the call.
C1_AllOrNothing ==
    (last.op \in TransformOps /\ ~IsOk) => After = last.before

\* C2: copy() returns a new adapter whose table equals the original's and is
\* another object than the original's table.
C2_CopyGivesEqualIndependentAdapter ==
    last.op = "copy" =>
        /\ IsOk
        /\ last.ret.t = "adapter"
        /\ last.ret.id # last.self
        /\ df[last.ret.id] # df[last.self]
        /\ heap[df[last.ret.id]] = last.before
        /\ After = last.before

\* C3: select of existing columns with copy=True returns a new adapter holding
\* exactly the requested columns and leaves the original's table alone; with
\* copy=False the original adapter holds exactly the requested columns and is
\* the adapter returned.
C3_SelectCopyOrInPlace ==
    (/\ last.op = "select"
     /\ \A i \in DOMAIN last.args.args : HasColumn(last.before, last.args.args[i]))
    =>  /\ IsOk
        /\ last.ret.t = "adapter"
        /\ Columns(heap[df[last.ret.id]]) = last.args.args
        /\ IF last.args.copy
           THEN last.ret.id # last.self /\ After = last.before
           ELSE last.ret.id = last.self

\* the column name the prefixing rule gives field f of column c
FieldName(c, prefix, f) ==
    IF prefix = NoneV THEN c \o "_" \o f
    ELSE IF prefix = Str("") THEN f
    ELSE prefix.s \o "_" \o f

\* the array lengths of a list column
ArrayLens(col) == [r \in DOMAIN col.values |-> Len(col.values[r].e)]
IsListOfStructs(t, c) ==
    /\ HasColumn(t, c)
    /\ Schema(t, c).kind = "List"
    /\ Schema(t, c).inner.kind = "Struct"
UnnestedRows ==
    /\ last.op = "unnest_column_as_rows"
    /\ IsListOfStructs(last.before, last.args.column_name)
    /\ IsOk

RECURSIVE OriginRows(_, _)
OriginRows(lens, r) ==
    IF r > Len(lens) THEN <<>>
    ELSE [k \in 1..(IF lens[r] = 0 THEN 1 ELSE lens[r]) |-> r] \o OriginRows(lens, r + 1)

C5_RenameColumnsChecksItsArguments ==
    last.op = "rename_columns" =>
        LET fs == last.args.from_names
            ts == last.args.to_names
        IN  IF Len(fs) # Len(ts)
            THEN last.status = "LengthMismatchError" /\ After = last.before
            ELSE IF \E i \in DOMAIN fs : ~HasColumn(last.before, fs[i])
            THEN last.status = "ColumnNotFoundError" /\ After = last.before
            ELSE /\ IsOk
                 /\ Len(After) = Len(last.before)
                 /\ \A j \in DOMAIN After :
                       /\ After[j].values = last.before[j].values
                       /\ After[j].name =
                            IF \E i \in DOMAIN fs : fs[i] = last.before[j].name
                            THEN ts[CHOOSE i \in DOMAIN fs : fs[i] = last.before[j].name]
                            ELSE last.before[j].name

ExpandedStruct ==
    /\ last.op = "expand_column"
    /\ HasColumn(last.before, last.args.column_name)
    /\ Schema(last.before, last.args.column_name).kind = "Struct"
FieldNames ==
    LET c == last.args.column_name
        fields == Schema(last.before, c).fields
    IN  [i \in DOMAIN fields |-> FieldName(c, last.args.prefix, fields[i])]
OtherColumns ==
    Filter(last.before,
           [i \in DOMAIN last.before |-> last.before[i].name # last.args.column_name])
ExpandedAsRuled ==
    /\ IsOk
    /\ Columns(After) = FieldNames \o Columns(OtherColumns)
    /\ \A i \in DOMAIN OtherColumns : After[Len(FieldNames) + i] = OtherColumns[i]
    /\ \A i \in DOMAIN After : Len(After[i].values) = Height(last.before)

\* C6 as stated: expand_column on a struct column always yields the field
\* columns, named by the prefixing rule, followed by the other columns.
C6_ExpandAlwaysYieldsFieldColumns == ExpandedStruct => ExpandedAsRuled

\* C6 amended: it does so when no field column's name equals the name of
\* another column; otherwise the call raises a duplicate-column error and the
\* table is unchanged.
C6_ExpandYieldsFieldColumnsUnlessNameClash ==
    ExpandedStruct =>
        IF Range(FieldNames) \cap Range(Columns(OtherColumns)) = {}
        THEN ExpandedAsRuled
        ELSE last.status = "DuplicateError" /\ After = last.before

\* C6 witness: a struct column was expanded with the empty prefix
C6_Witness ==
    /\ ExpandedStruct
    /\ IsOk
    /\ last.args.prefix = Str("")
    /\ Columns(After) = <<"a", "b", "id">>

\* C7: create(X).to_json() has X's rows, and an adapter built again from that
\* output gives the same to_json().
C7_RoundTrip ==
    last.op = "create" =>
        LET x == last.args.json_obj
        IN  /\ x.type = "str" =>
                /\ IsOk
                /\ ToJson(heap, df, last.ret.id).rows = x.doc.records
            /\ x.type = "list" =>
                /\ IsOk
                /\ ToJson(heap, df, last.ret.id) = x

\* C8: set_constant always succeeds; afterwards every row of the column holds
\* the value, the other columns are unchanged and the adapter is returned.
C8_SetConstantSucceeds ==
    last.op = "set_constant" =>
        /\ IsOk
        /\ last.ret = AdapterRef(last.self)
        /\ HasColumn(After, last.args.column_name)
        /\ \A r \in 1..Height(last.before) :
              Col(After, last.args.column_name).values[r] = last.args.value
        /\ \A i \in DOMAIN last.before :
              last.before[i].name # last.args.column_name
                  => Col(After, last.before[i].name) = last.before[i]

\* C9: rendering an adapter as a string succeeds, gives what to_json() gives
\* and leaves the table alone.
C9_ReprIsToJson ==
    last.op = "repr" =>
        /\ IsOk
        /\ last.ret = Value(ToJson(heap, df, last.self))
        /\ After = last.before

\* C10: an adapter built from a table holds that very table object, and no
\* call changes a table object in place or another adapter's reference: a
\* successful transform points its own adapter at a new table object.
C10_TablesAreReplacedNeverModified ==
    [][/\ \A i \in DOMAIN heap : i \in DOMAIN heap' /\ heap'[i] = heap[i]
       /\ \A a \in DOMAIN df : a # last'.self => a \in DOMAIN df' /\ df'[a] = df[a]
       /\ (last'.op = "create" /\ last'.args.json_obj.type = "DataFrame") =>
             /\ last'.status = "ok"
             /\ heap' = heap
             /\ df'[last'.ret.id] = last'.args.json_obj.ref
       /\ (last'.op \in TransformOps \cup {"set_constant"} /\ last'.status = "ok"
             /\ last'.ret.id = last'.self) =>
             df'[last'.self] \notin DOMAIN heap]_vars

\* C10 witness: after a transform of one adapter, another adapter still holds
\* the table object the first was built on, with its content as before
C10_Witness ==
    /\ last.op \in TransformOps
    /\ IsOk
    /\ \E b \in DOMAIN df :
          /\ b # last.self
          /\ df[b] = last.old
          /\ heap[df[b]] = last.before
          /\ After # last.before

====
